---- MODULE Spec2Model ----
(***************************************************************************)
(* Model of the Obsidian plugin in src/main.ts: the "write-file" (export   *)
(* to hugo), "publish-post" and "export-start-page" commands, together     *)
(* with the text functions they use (getFrontmatter, filenameToTitle,      *)
(* fileExistsWithSameSize).                                                *)
(*                                                                         *)
(* A JavaScript string is modelled as a sequence of one-character strings, *)
(* so that the regular expressions and the split/trim/replace calls of the *)
(* source are computed character by character.                             *)
(*                                                                         *)
(* Lines 1006-1252 of src/main.ts hold an earlier version of the plugin   *)
(* (export by a global regex scan, without dedup and captions); the model  *)
(* follows the current version, lines 1-1004.                              *)
(***************************************************************************)
EXTENDS Integers, Sequences, FiniteSets, TLC

VARIABLES
    file,        \* view.file: the active file, [open, path]
    doc,         \* editor.getDoc().getValue(): the note text
    settings,    \* this.settings: [startPageExportPath]
    vault,       \* vault index: asset path -> byte size (the TFile's of the vault)
    staticFs,    \* the hugo static/ directory: destination path -> stat entry
    postsFs,     \* the hugo content/posts/ directory: path -> text written
    snapshotFs,  \* files written by exportStartPageHtml: path -> html
    last,        \* what the last command invocation did (calls, notices, loop events)
    norm,        \* the text buffer the metadata normalizer works on (SpecNorm)
    debounceTimer, \* this.debounceTimer: the handle of the last timer set, or NoTimer
    host,        \* the host: clock, timer table, whether the plugin is loaded, event log
    pipes        \* the export pipelines in flight (SpecConc): pipeline -> its position

vars ==
    <<file, doc, settings, vault, staticFs, postsFs, snapshotFs, last, norm,
      debounceTimer, host, pipes>>

\* the state of the timers and of the pipelines in flight
asyncVars == <<debounceTimer, host, pipes>>

----------------------------------------------------------------------------
(* Bounds of the model *)

\* longest note body, in lines, that Init draws
MaxBodyLines == 3

\* how many times in a row the normalizer is re-applied to its own output
MaxNormRuns == 2

\* how many editor-change events the host raises
MaxEdits == 3

\* how far the clock of the host runs, in ticks
MaxTime == 7

----------------------------------------------------------------------------
(* String primitives of JavaScript, on sequences of characters *)

Min(S) == CHOOSE x \in S : \A y \in S : x <= y

\* F(v), with v computed once
With(v, F(_)) == CHOOSE r \in {F(x) : x \in {v}} : TRUE

IsWhitespace(c) == c \in {" ", "\t", "\n", "\r"}

IsDigit(c) == c \in {"0", "1", "2", "3", "4", "5", "6", "7", "8", "9"}

\* s.startsWith(p, i - 1), positions counted from 1
StartsWithAt(s, p, i) ==
    /\ i >= 1
    /\ i + Len(p) - 1 <= Len(s)
    /\ \A k \in 1..Len(p) : s[i + k - 1] = p[k]

StartsWith(s, p) == StartsWithAt(s, p, 1)

EndsWith(s, p) == Len(s) >= Len(p) /\ StartsWithAt(s, p, Len(s) - Len(p) + 1)

\* s.indexOf(p, from - 1) + 1: the first position >= from where p occurs, 0 if none
IndexOf(s, p, from) ==
    With({i \in from..(Len(s) - Len(p) + 1) : StartsWithAt(s, p, i)},
         LAMBDA I : IF I = {} THEN 0 ELSE Min(I))

Includes(s, p) == IndexOf(s, p, 1) # 0

Max(S) == CHOOSE x \in S : \A y \in S : y <= x

\* s.trim()
Trim(s) ==
    LET ink == {i \in 1..Len(s) : ~IsWhitespace(s[i])}
    IN  IF ink = {} THEN <<>> ELSE SubSeq(s, Min(ink), Max(ink))

\* the pieces of s between the separators at the positions seps, from piece k on;
\* from is where piece k starts
RECURSIVE SplitAt(_, _, _, _)
SplitAt(s, seps, k, from) ==
    IF k > Len(seps)
    THEN <<SubSeq(s, from, Len(s))>>
    ELSE <<SubSeq(s, from, seps[k] - 1)>> \o SplitAt(s, seps, k + 1, seps[k] + 1)

\* s.split(c) for a one-character separator c
Split(s, c) ==
    With(s, LAMBDA v :
        With(SelectSeq([i \in 1..Len(v) |-> IF v[i] = c THEN i ELSE 0], LAMBDA i : i # 0),
             LAMBDA seps : SplitAt(v, seps, 1, 1)))

RECURSIVE JoinFrom(_, _, _)
JoinFrom(parts, c, i) ==
    IF i > Len(parts) THEN <<>>
    ELSE IF i = Len(parts) THEN parts[i]
    ELSE parts[i] \o <<c>> \o JoinFrom(parts, c, i + 1)

\* parts.join(c)
Join(parts, c) == With(parts, LAMBDA v : JoinFrom(v, c, 1))

\* s.replace(p, r) for a literal pattern p: the first occurrence only
ReplaceFirst(s, p, r) ==
    With(IndexOf(s, p, 1),
         LAMBDA i :
             IF i = 0 THEN s
             ELSE SubSeq(s, 1, i - 1) \o r \o SubSeq(s, i + Len(p), Len(s)))

UpperCase == <<"A","B","C","D","E","F","G","H","I","J","K","L","M",
               "N","O","P","Q","R","S","T","U","V","W","X","Y","Z">>
LowerCase == <<"a","b","c","d","e","f","g","h","i","j","k","l","m",
               "n","o","p","q","r","s","t","u","v","w","x","y","z">>

\* s.toLowerCase()
ToLowerCase(s) ==
    [i \in 1..Len(s) |->
        IF \E k \in 1..26 : UpperCase[k] = s[i]
        THEN LowerCase[CHOOSE k \in 1..26 : UpperCase[k] = s[i]]
        ELSE s[i]]

----------------------------------------------------------------------------
(* Literals of the source *)

FM_OPEN == <<"-","-","-","\n">>
FM_CLOSE == <<"\n","-","-","-">>
EMBED_OPEN == <<"!","[","[">>
EMBED_CLOSE == <<"]","]">>
K_tags == <<"t","a","g","s">>
K_date == <<"d","a","t","e">>
K_title == <<"t","i","t","l","e">>
K_hugoAliases == <<"h","u","g","o","A","l","i","a","s","e","s">>
PUBLISH_TAG == <<"#","p","u","b","l","i","s","h">>
HUGO_ALIASES_COLON == <<"h","u","g","o","A","l","i","a","s","e","s",":">>
ALIASES_COLON == <<"a","l","i","a","s","e","s",":">>
DATE_PREFIX == <<"d","a","t","e",":"," ">>
TITLE_PREFIX == <<"t","i","t","l","e",":"," ">>
MD_EXT == <<".","m","d">>
START == <<"S","T","A","R","T">>

\* the fixed directories and the endpoint, each kept as one opaque path prefix
BASE_PATH == "/Users/jonbo/Github/jborichevskiy/up-and-to-the-right/content/posts/"
STATIC_ROOT == "/Users/jonbo/Github/jborichevskiy/up-and-to-the-right/static/"
ENDPOINT == "https://jonbo-notessiteingest.web.val.run"

\* the fixed pieces of the figure shortcode
FIGURE_OPEN == "{{<figure src=\"/"
FIGURE_MID == "\" caption=\""
FIGURE_CLOSE == "\">}}"

N_DAILY == "daily file detected, skipping"
N_NOTAG == "no #publish tag in frontmatter detected, skipping"
N_EXPORT_OK == "File and images exported successfully."
N_EXPORT_FAIL == "Failed to write file. Check console for details."
N_ONLY_START == "This command only works on the START page"
N_NO_PATH == "Please configure the START page export path in settings"
N_START_OK == "START page exported successfully"
N_START_FAIL == "Error exporting START page. Check console for details."

----------------------------------------------------------------------------
(* getFrontmatter *)

\* a frontmatter value: a string, or an array of strings
StringValue(s) == [isArray |-> FALSE, str |-> s, items |-> <<>>]
ArrayValue(xs) == [isArray |-> TRUE, str |-> <<>>, items |-> xs]

\* the result of getFrontmatter: null, or an object
NullFrontmatter == [isNull |-> TRUE, keys |-> {}, at |-> <<>>]
EmptyFrontmatter == [isNull |-> FALSE, keys |-> {}, at |-> <<>>]

\* frontmatter[key] = v
SetKey(fm, key, v) ==
    [isNull |-> FALSE,
     keys |-> fm.keys \cup {key},
     at |-> [k \in fm.keys \cup {key} |-> IF k = key THEN v ELSE fm.at[k]]]

\* JavaScript truthiness of frontmatter[key]: undefined and "" are falsy,
\* every array (the empty one too) is truthy
Truthy(fm, key) ==
    /\ ~fm.isNull
    /\ key \in fm.keys
    /\ (fm.at[key].isArray \/ fm.at[key].str # <<>>)

\* content.match(/^---\n([\s\S]*?)\n---/): the position of the closing "\n---",
\* 0 when the text does not match
FrontmatterClose(content) ==
    IF StartsWith(content, FM_OPEN)
    THEN IndexOf(content, FM_CLOSE, Len(FM_OPEN) + 1)
    ELSE 0

\* match[1]
FrontmatterBlock(content) ==
    SubSeq(content, Len(FM_OPEN) + 1, FrontmatterClose(content) - 1)

TrimAll(xs) == [i \in 1..Len(xs) |-> Trim(xs[i])]

\* one iteration of the for loop of getFrontmatter; st = [fm, currentKey]
ParseLine(st, line) ==
    IF Includes(line, <<":">>)
    THEN With(IndexOf(line, <<":">>, 1),
              LAMBDA c :
                  With(Trim(SubSeq(line, c + 1, Len(line))),
                       LAMBDA value :
                           [fm |-> SetKey(st.fm, Trim(SubSeq(line, 1, c - 1)),
                                          IF StartsWith(value, <<"[">>) /\ EndsWith(value, <<"]">>)
                                          THEN ArrayValue(TrimAll(Split(SubSeq(value, 2, Len(value) - 1), ",")))
                                          ELSE StringValue(value)),
                            currentKey |-> Trim(SubSeq(line, 1, c - 1))]))
    ELSE IF StartsWith(Trim(line), <<"-">>) /\ st.currentKey # <<>>
    THEN LET old == st.fm.at[st.currentKey]
             arr == IF old.isArray THEN old.items ELSE <<>>
             item == Trim(Tail(Trim(line)))
         IN  [fm |-> SetKey(st.fm, st.currentKey, ArrayValue(Append(arr, item))),
              currentKey |-> st.currentKey]
    ELSE st

\* the for loop of getFrontmatter from line i on
RECURSIVE ParseLines(_, _, _)
ParseLines(st, lines, i) ==
    IF i > Len(lines) THEN st
    ELSE With(ParseLine(st, lines[i]), LAMBDA after : ParseLines(after, lines, i + 1))

\* lines 785-819
getFrontmatter(content) ==
    IF FrontmatterClose(content) = 0
    THEN NullFrontmatter
    ELSE With(Split(FrontmatterBlock(content), "\n"),
              LAMBDA lines :
                  ParseLines([fm |-> EmptyFrontmatter, currentKey |-> <<>>], lines, 1).fm)

----------------------------------------------------------------------------
(* filenameToTitle and the filename tests of the commands *)

\* filename.replace(/\.md$/, "")
StripMd(filename) ==
    IF EndsWith(filename, MD_EXT)
    THEN SubSeq(filename, 1, Len(filename) - Len(MD_EXT))
    ELSE filename

\* a variant that replaces the hyphens and leaves the underscores
filenameToTitleHyphensOnly(filename) ==
    With(StripMd(filename),
         LAMBDA t : [i \in 1..Len(t) |-> IF t[i] = "-" THEN " " ELSE t[i]])

\* lines 775-783
filenameToTitle(filename) ==
    With(StripMd(filename),
         LAMBDA t : [i \in 1..Len(t) |-> IF t[i] \in {"-", "_"} THEN " " ELSE t[i]])

\* parts[parts.length - 1] of path.split("/")
FilenameOf(path) == With(Split(path, "/"), LAMBDA parts : parts[Len(parts)])

\* s.match(/^\d{4}-\d{2}-\d{2}$/)
MatchesDatePattern(s) ==
    /\ Len(s) = 10
    /\ \A i \in {1, 2, 3, 4, 6, 7, 9, 10} : IsDigit(s[i])
    /\ s[5] = "-"
    /\ s[8] = "-"

\* filename.split(".")[0] matches the date pattern
IsDailyNote(filename) ==
    With(Split(filename, ".")[1], LAMBDA date : MatchesDatePattern(date))

\* TFile.basename of the host: the file name without its last extension
Basename(path) ==
    With(FilenameOf(path),
         LAMBDA name :
             LET dots == {i \in 2..Len(name) : name[i] = "."}
             IN  IF dots = {} THEN name ELSE SubSeq(name, 1, Max(dots) - 1))

----------------------------------------------------------------------------
(* The export command "write-file": metadata normalizer *)

\* new Date().toISOString().split("T")[0] at the time of the export
CurrentDate == <<"2","0","2","4","-","0","3","-","0","9">>

\* a variant that puts the line in front of the opening delimiter
InsertBeforeOpening(content, line) ==
    IF StartsWith(content, FM_OPEN)
    THEN line \o <<"\n">> \o content
    ELSE content

\* content.replace(/^---\n/, "---\n" + line + "\n")
InsertAfterOpening(content, line) ==
    IF StartsWith(content, FM_OPEN)
    THEN FM_OPEN \o line \o <<"\n">> \o SubSeq(content, Len(FM_OPEN) + 1, Len(content))
    ELSE content

\* lines 224-232: add the current date when the frontmatter has no date
InjectDate(content, frontmatter, currentDate) ==
    IF ~Truthy(frontmatter, K_date)
    THEN InsertAfterOpening(content, DATE_PREFIX \o currentDate)
    ELSE content

\* lines 234-244: add the title made of the filename when there is no title
InjectTitle(content, frontmatter, filename) ==
    IF ~Truthy(frontmatter, K_title)
    THEN InsertAfterOpening(content, TITLE_PREFIX \o filenameToTitle(filename))
    ELSE content

\* lines 309-313: content.replace(/hugoAliases:/, "aliases:")
RenameHugoAliases(content, frontmatter) ==
    IF Truthy(frontmatter, K_hugoAliases)
    THEN ReplaceFirst(content, HUGO_ALIASES_COLON, ALIASES_COLON)
    ELSE content

\* one line under /^(aliases:.*)'(.*)'/ -> "$1$2": both groups are greedy, so
\* the two quotes matched are the last two of the line, and they are dropped
StripAliasQuotesLine(line) ==
    LET q == {i \in 1..Len(line) : line[i] = "'"}
    IN  IF StartsWith(line, ALIASES_COLON) /\ Cardinality(q) >= 2
        THEN LET q2 == Max(q)
                 q1 == Max(q \ {q2})
             IN  SubSeq(line, 1, q1 - 1) \o SubSeq(line, q1 + 1, q2 - 1)
                     \o SubSeq(line, q2 + 1, Len(line))
        ELSE line

\* line 315: content.replace(/^(aliases:.*)'(.*)'/gm, "$1$2")
StripAliasQuotes(content) ==
    With(Split(content, "\n"),
         LAMBDA lines : Join([i \in 1..Len(lines) |-> StripAliasQuotesLine(lines[i])], "\n"))

----------------------------------------------------------------------------
(* The export command "write-file": images *)

VAULT_BASE == "<vault.adapter.basePath>/"

\* what a directory holds at a path: no file, a file of some size, or a place
\* fs.stat may not look at; writable says whether fs.copyFile to the path succeeds
\* (it throws when the directory is missing or read-only, or the file read-only)
Missing == [state |-> "missing", size |-> 0, writable |-> TRUE]
FileOf(n) == [state |-> "file", size |-> n, writable |-> TRUE]
NoAccess == [state |-> "noaccess", size |-> 0, writable |-> FALSE]
ReadOnly(e) == [e EXCEPT !.writable = FALSE]

\* fs.stat(path) in a directory map: a path outside the map does not exist
Stat(fs, path) == IF path \in DOMAIN fs THEN fs[path] ELSE Missing

\* the directory map after path got entry e
PutFile(fs, path, e) ==
    [p \in DOMAIN fs \cup {path} |-> IF p = path THEN e ELSE fs[p]]

\* line.match(/!\[\[(.*?)\]\]/): [found, name]
EmbedMatch(line) ==
    With(IndexOf(line, EMBED_OPEN, 1),
         LAMBDA p :
             With(IF p = 0 THEN 0 ELSE IndexOf(line, EMBED_CLOSE, p + Len(EMBED_OPEN)),
                  LAMBDA q :
                      IF q = 0
                      THEN [found |-> FALSE, name |-> <<>>]
                      ELSE [found |-> TRUE,
                            name |-> SubSeq(line, p + Len(EMBED_OPEN), q - 1)]))

\* this.app.vault.getAbstractFileByPath(imageName) instanceof TFile
IsVaultFile(imageName) == imageName \in DOMAIN vault

\* line 261
SourcePath(imageName) == <<VAULT_BASE>> \o imageName

\* a variant that keeps only the last segment of the reference
DestPathOfBasename(imageName) == <<STATIC_ROOT>> \o FilenameOf(imageName)

\* line 262
DestPath(imageName) == <<STATIC_ROOT>> \o imageName

\* fs.stat of the source asset: the vault's file
SourceStat(sourcePath) ==
    IF Tail(sourcePath) \in DOMAIN vault THEN FileOf(vault[Tail(sourcePath)]) ELSE Missing

\* line 271: fs.copyFile(sourcePath, destPath) throws
CopyThrows(fs, destPath) == ~Stat(fs, destPath).writable

\* a variant that is content with a destination that exists, whatever its size
fileExistsIgnoringSize(fs, sourcePath, destPath) ==
    LET sourceStats == SourceStat(sourcePath)
        destStats == Stat(fs, destPath)
    IN  /\ sourceStats.state = "file"
        /\ destStats.state = "file"

\* lines 821-834: both stats succeed and the sizes are equal
fileExistsWithSameSize(fs, sourcePath, destPath) ==
    LET sourceStats == SourceStat(sourcePath)
        destStats == Stat(fs, destPath)
    IN  /\ sourceStats.state = "file"
        /\ destStats.state = "file"
        /\ sourceStats.size = destStats.size

\* a variant that wants a blank line after the caption and does not take the
\* end of the text for one
CaptionClaimedBeforeBlankOnly(lines, i) ==
    /\ i + 1 <= Len(lines)
    /\ Trim(lines[i + 1]) # <<>>
    /\ ~EmbedMatch(lines[i + 1]).found
    /\ i + 2 <= Len(lines)
    /\ Trim(lines[i + 2]) = <<>>

\* a variant that does not look for an embed in the line it claims
CaptionClaimedWithoutEmbedTest(lines, i) ==
    /\ i + 1 <= Len(lines)
    /\ Trim(lines[i + 1]) # <<>>
    /\ (i + 2 > Len(lines) \/ Trim(lines[i + 2]) = <<>>)

\* lines 276-283: is line i + 1 the caption of the embed at line i (from 1)
CaptionClaimed(lines, i) ==
    /\ i + 1 <= Len(lines)
    /\ Trim(lines[i + 1]) # <<>>
    /\ ~EmbedMatch(lines[i + 1]).found
    /\ (i + 2 > Len(lines) \/ Trim(lines[i + 2]) = <<>>)

\* line 285
AssembledFigure(imageName, caption) ==
    <<FIGURE_OPEN>> \o imageName \o <<FIGURE_MID>> \o caption \o <<FIGURE_CLOSE, "\n">>

\* what the loop has done so far
LoopStart(fs) == [out |-> <<>>, fs |-> fs, stats |-> <<>>, copies |-> <<>>, events |-> <<>>]

\* what one iteration did: the line visited, what was pushed to processedLines,
\* the caption taken, the next line to visit, and for an embed the vault
\* resolves: its name, the destination, what fs.stat saw there and the copy call
Event(i, kind, pushed, caption, next) ==
    [line |-> i, kind |-> kind, pushed |-> pushed, caption |-> caption, next |-> next,
     name |-> <<>>, dest |-> <<>>, destStat |-> Missing, copy |-> "none"]

\* a variant of the catch block that lets the error end the loop
CopyFailedLeavingLoop(lines, i, acc, imageName) ==
    [acc EXCEPT
        !.stats = Append(@, DestPath(imageName)),
        !.copies = Append(@, [src |-> SourcePath(imageName),
                              dest |-> DestPath(imageName), ok |-> FALSE]),
        !.events = Append(@, [Event(i, "copyerror", <<>>, <<>>, Len(lines) + 1) EXCEPT
                                 !.name = imageName,
                                 !.dest = DestPath(imageName),
                                 !.destStat = Stat(acc.fs, DestPath(imageName)),
                                 !.copy = "threw"])]

\* lines 271 and 288-294: fs.copyFile threw, the catch block pushes the line as it is
CopyFailed(lines, i, acc, imageName) ==
    [acc EXCEPT
        !.out = Append(@, lines[i]),
        !.stats = Append(@, DestPath(imageName)),
        !.copies = Append(@, [src |-> SourcePath(imageName),
                              dest |-> DestPath(imageName), ok |-> FALSE]),
        !.events = Append(@, [Event(i, "copyerror", lines[i], <<>>, i + 1) EXCEPT
                                 !.name = imageName,
                                 !.dest = DestPath(imageName),
                                 !.destStat = Stat(acc.fs, DestPath(imageName)),
                                 !.copy = "threw"])]

\* lines 259-294: the embed of line i names the vault file imageName
ResolvedStep(lines, i, acc, imageName, exists) ==
    IF ~exists /\ CopyThrows(acc.fs, DestPath(imageName))
    THEN CopyFailed(lines, i, acc, imageName)
    ELSE With(CaptionClaimed(lines, i),
              LAMBDA claimed :
                  With(IF claimed THEN Trim(lines[i + 1]) ELSE <<>>,
                       LAMBDA caption :
                           [out |-> Append(acc.out, AssembledFigure(imageName, caption)),
                            fs |-> IF exists THEN acc.fs
                                   ELSE PutFile(acc.fs, DestPath(imageName),
                                                SourceStat(SourcePath(imageName))),
                            stats |-> Append(acc.stats, DestPath(imageName)),
                            copies |-> IF exists THEN acc.copies
                                       ELSE Append(acc.copies,
                                                   [src |-> SourcePath(imageName),
                                                    dest |-> DestPath(imageName), ok |-> TRUE]),
                            events |-> Append(acc.events,
                                              [Event(i, "figure",
                                                     AssembledFigure(imageName, caption), caption,
                                                     IF claimed THEN i + 2 ELSE i + 1) EXCEPT
                                                  !.name = imageName,
                                                  !.dest = DestPath(imageName),
                                                  !.destStat = Stat(acc.fs, DestPath(imageName)),
                                                  !.copy = IF exists THEN "none" ELSE "ok"])]))

\* one iteration of the while loop (lines 252-302) at line i (from 1)
LoopStep(lines, i, acc) ==
    With(EmbedMatch(lines[i]),
         LAMBDA imageMatch :
             IF ~imageMatch.found
             THEN [acc EXCEPT !.out = Append(@, lines[i]),
                              !.events = Append(@, Event(i, "text", lines[i], <<>>, i + 1))]
             ELSE IF ~IsVaultFile(imageMatch.name)
             THEN [acc EXCEPT !.out = Append(@, lines[i]),
                              !.events = Append(@, Event(i, "notfound", lines[i], <<>>, i + 1))]
             ELSE With(fileExistsWithSameSize(acc.fs, SourcePath(imageMatch.name),
                                              DestPath(imageMatch.name)),
                       LAMBDA exists :
                           ResolvedStep(lines, i, acc, imageMatch.name, exists)))

\* a variant of the loop that goes to the next line whatever the iteration took
RECURSIVE ImageLoopLineByLine(_, _, _)
ImageLoopLineByLine(lines, i, acc) ==
    IF i > Len(lines) THEN acc
    ELSE With(LoopStep(lines, i, acc),
              LAMBDA after : ImageLoopLineByLine(lines, i + 1, after))

\* lines 249-303: the while loop from line i on
RECURSIVE ImageLoop(_, _, _)
ImageLoop(lines, i, acc) ==
    IF i > Len(lines) THEN acc
    ELSE With(LoopStep(lines, i, acc),
              LAMBDA after :
                  ImageLoop(lines, after.events[Len(after.events)].next, after))

\* filename.replace(/\s+/g, "-")
HyphenateWhitespace(s) ==
    SelectSeq([i \in 1..Len(s) |->
                  IF ~IsWhitespace(s[i]) THEN s[i]
                  ELSE IF i > 1 /\ IsWhitespace(s[i - 1]) THEN ""
                  ELSE "-"],
              LAMBDA ch : ch # "")

\* lines 317-318
ExportPath(filename) == <<BASE_PATH>> \o ToLowerCase(HyphenateWhitespace(filename))

----------------------------------------------------------------------------
(* The notes, files and directories the model starts from *)

F_daily == <<"2","0","2","4","-","0","1","-","0","5",".","m","d">>
F_loose == <<"2","0","2","4","-","1","-","5",".","m","d">>
F_dotted == <<"2","0","2","4","-","0","1","-","0","5",".","v","2",".","m","d">>
F_nested == <<"n","o","t","e","s","/","2","0","2","4","-","0","1","-","0","5",".","m","d">>
F_post == <<"m","y","-","f","i","r","s","t","_","p","o","s","t",".","m","d">>
F_start == <<"S","T","A","R","T",".","m","d">>
F_spaced == <<"M","y"," ","N","o","t","e",".","m","d">>
F_note == <<"n",".","m","d">>
F_double == <<"a","-","_","b",".","m","d">>

NoFile == [open |-> FALSE, path |-> <<>>]
OpenFile(path) == [open |-> TRUE, path |-> path]

FilePaths ==
    {F_daily, F_loose, F_dotted, F_nested, F_post, F_start, F_spaced, F_note, F_double}

R_a == <<"a",".","p","n","g">>
R_sub == <<"d","/","b",".","p","n","g">>
R_x == <<"x",".","p","n","g">>

L_embedSub == <<"!","[","[","d","/","b",".","p","n","g","]","]">>
L_embedX == <<"!","[","[","x",".","p","n","g","]","]">>
L_two == <<"s","e","e"," ","!","[","[","a",".","p","n","g","]","]","!","[","[","x",".","p","n","g","]","]">>
L_cap == <<" ","M","y"," ","c","a","p"," ">>
L_blank == <<>>

L_rule == <<"-","-","-">>
L_tagsPublish == <<"t","a","g","s",":"," ","[","#","p","u","b","l","i","s","h",","," ","#","j","o","u","r","n","a","l","]">>
L_tagsJournal == <<"t","a","g","s",":"," ","[","#","j","o","u","r","n","a","l","]">>
L_tagsScalar == <<"t","a","g","s",":"," ","#","p","u","b","l","i","s","h">>
L_tagsKey == <<"t","a","g","s",":">>
L_itemPublish == <<" "," ","-"," ","#","p","u","b","l","i","s","h">>
L_itemJournal == <<"-"," ","#","j","o","u","r","n","a","l">>
L_date == <<"d","a","t","e",":"," ","2","0","2","0","-","0","2","-","0","2">>
L_dateEmpty == <<"d","a","t","e",":">>
L_title == <<"t","i","t","l","e",":"," ","T">>
L_hugo == <<"h","u","g","o","A","l","i","a","s","e","s",":"," ","[","'","/","a","'",","," ","'","/","b","'","]">>
L_aliases == <<"a","l","i","a","s","e","s",":"," ","'","/","a","'">>

\* the lines a note body is made of
BodyLinePool == {L_embedSub, L_embedX, L_two, L_cap, L_blank}

\* every body of at most MaxBodyLines lines
Bodies == UNION {[1..n -> BodyLinePool] : n \in 0..MaxBodyLines}

\* the frontmatter blocks, as the lines between the two "---" lines
FrontmatterPool ==
    { <<>>,
      <<L_tagsPublish>>,
      <<L_tagsJournal>>,
      <<L_tagsScalar>>,
      <<L_tagsKey, L_itemPublish, L_itemJournal>>,
      <<L_tagsKey, L_itemJournal>>,
      <<L_date, L_title, L_tagsPublish>>,
      <<L_dateEmpty, L_tagsPublish>>,
      <<L_title, L_hugo>>,
      <<L_date, L_aliases>>,
      <<L_itemJournal, L_title>> }

\* a note: the frontmatter block (if any) followed by the body
NoteText(fmLines, bodyLines) == Join(<<L_rule>> \o fmLines \o <<L_rule>> \o bodyLines, "\n")

\* notes that vary the frontmatter, over a fixed body
FrontmatterDocs ==
    {NoteText(fm, <<L_cap>>) : fm \in FrontmatterPool} \cup {Join(<<L_cap, L_rule>>, "\n")}

\* notes that vary the body, under a fixed frontmatter
BodyDocs == {NoteText(<<L_title>>, b) : b \in Bodies}

P_unset == <<>>
P_plain == <<"/","s",".","h","t","m","l">>
P_escaped == <<"/","m","y","\\"," ","s",".","h","t","m","l">>

ExportPaths == {P_unset, P_plain, P_escaped}

\* the assets of the vault and their byte sizes
VaultFiles == [p \in {R_a, R_sub} |-> IF p = R_a THEN 100 ELSE 50]

\* what static/ may hold at first at the destination of each asset
InitialEntries(ref) ==
    IF ref = R_sub
    THEN {Missing, FileOf(50), FileOf(100), NoAccess}
    ELSE {Missing, ReadOnly(FileOf(50))}

\* the assets a note embeds: the first embed of each of its lines
EmbeddedIn(text) ==
    With(Split(text, "\n"), LAMBDA lines : {EmbedMatch(lines[i]).name : i \in 1..Len(lines)})

\* the states of static/ a note can start from: a destination the note does not
\* name holds nothing
InitialStaticFs(text) ==
    With(EmbeddedIn(text),
         LAMBDA refs :
             {fs \in [{DestPath(r) : r \in DOMAIN VaultFiles} -> UNION {InitialEntries(r) : r \in DOMAIN VaultFiles}] :
                 \A r \in DOMAIN VaultFiles :
                     /\ fs[DestPath(r)] \in InitialEntries(r)
                     /\ r \notin refs => fs[DestPath(r)] = Missing})

\* nothing done yet, and the record a command starts from
Run(cmd) ==
    [cmd |-> cmd, logs |-> <<>>, notices |-> <<>>, stats |-> <<>>, copies |-> <<>>,
     events |-> <<>>, lines |-> <<>>, writes |-> <<>>, posts |-> <<>>]

\* the normalizer's buffer: the filename, the text before the last step, the
\* text now, the last step applied and the number of whole passes
NormIdle == [filename |-> <<>>, input |-> <<>>, text |-> <<>>, op |-> "none", runs |-> 0]

\* this.debounceTimer = null (line 38)
NoTimer == [set |-> FALSE, id |-> 0]

\* the host at the start: the plugin loaded, no timer, nothing logged
HostIdle == [now |-> 0, timers |-> {}, nextId |-> 1, loaded |-> TRUE, log |-> <<>>]

\* no timer set, no pipeline in flight
AsyncIdle ==
    /\ debounceTimer = NoTimer
    /\ host = HostIdle
    /\ pipes = <<>>

Init ==
    /\ vault = VaultFiles
    /\ \/ \E text \in FrontmatterDocs, path \in FilePaths, exportPath \in ExportPaths :
             /\ file \in {OpenFile(path)} \cup (IF path = F_note THEN {NoFile} ELSE {})
             /\ doc = text
             /\ settings = [startPageExportPath |-> exportPath]
             /\ staticFs = [p \in {DestPath(r) : r \in DOMAIN VaultFiles} |-> Missing]
       \/ \E text \in BodyDocs :
             /\ file = OpenFile(F_note)
             /\ doc = text
             /\ settings = [startPageExportPath |-> P_unset]
             /\ staticFs \in InitialStaticFs(text)
    /\ postsFs = <<>>
    /\ snapshotFs = <<>>
    /\ last = Run("none")
    /\ norm = NormIdle
    /\ AsyncIdle

----------------------------------------------------------------------------
(* The commands *)

\* frontmatter.tags.includes("#publish"): Array.prototype.includes on an array,
\* String.prototype.includes (a substring test) on a string
TagsIncludePublish(frontmatter) ==
    IF frontmatter.at[K_tags].isArray
    THEN \E i \in 1..Len(frontmatter.at[K_tags].items) :
             frontmatter.at[K_tags].items[i] = PUBLISH_TAG
    ELSE Includes(frontmatter.at[K_tags].str, PUBLISH_TAG)

\* lines 356-360, negated: the note passes the publish gate
PassesPublishGate(frontmatter) ==
    /\ ~frontmatter.isNull
    /\ Truthy(frontmatter, K_tags)
    /\ TagsIncludePublish(frontmatter)

\* the body of the POST; id (Date.now()) is left out, and the content stands
\* for btoa(encodeURIComponent(content))
PostRequest(title, content) ==
    [url |-> ENDPOINT, method |-> "POST", title |-> title,
     content |-> [base64OfPercentEncoded |-> content]]

\* lines 335-385: the "publish-post" command
PublishPost ==
    /\ \E start \in {[Run("publish-post") EXCEPT !.logs = <<"command:publish">>]} :
          IF ~file.open THEN last' = start
          ELSE \E filename \in {FilenameOf(file.path)} :
               IF IsDailyNote(filename)
               THEN last' = [start EXCEPT !.logs = Append(@, N_DAILY)]
               ELSE \E frontmatter \in {getFrontmatter(doc)} :
                    IF ~PassesPublishGate(frontmatter)
                    THEN last' = [start EXCEPT !.logs = Append(@, N_NOTAG)]
                    ELSE last' = [start EXCEPT
                                     !.posts = <<PostRequest(filenameToTitle(filename), doc)>>]
    /\ UNCHANGED <<file, doc, settings, vault, staticFs, postsFs, snapshotFs,
                   norm, asyncVars>>

\* lines 309-315: rename of hugoAliases and removal of the quotes
FixAliases(content, frontmatter) ==
    With(RenameHugoAliases(content, frontmatter), LAMBDA renamed : StripAliasQuotes(renamed))

\* a variant that undoes the copies of the run when the write fails
WriteFileRollingBack(filename, frontmatter, lines, writeThrows) ==
    \E loop \in {ImageLoop(lines, 1, LoopStart(staticFs))} :
    \E content \in {FixAliases(Join(loop.out, "\n"), frontmatter)} :
    \E path \in {ExportPath(filename)} :
        /\ last' = [Run("write-file") EXCEPT
                       !.stats = loop.stats, !.copies = loop.copies,
                       !.events = loop.events, !.lines = lines,
                       !.writes = <<[path |-> path, content |-> content, ok |-> ~writeThrows]>>,
                       !.notices = <<IF writeThrows THEN N_EXPORT_FAIL ELSE N_EXPORT_OK>>]
        /\ staticFs' = IF writeThrows THEN staticFs ELSE loop.fs
        /\ postsFs' = IF writeThrows THEN postsFs ELSE PutFile(postsFs, path, content)

\* lines 219-329 of the "write-file" command, for a file that is not skipped;
\* writeThrows: whether fs.writeFile throws
WriteFile(filename, frontmatter, lines, writeThrows) ==
    \E loop \in {ImageLoop(lines, 1, LoopStart(staticFs))} :
    \E content \in {FixAliases(Join(loop.out, "\n"), frontmatter)} :
    \E path \in {ExportPath(filename)} :
        /\ last' = [Run("write-file") EXCEPT
                       !.stats = loop.stats, !.copies = loop.copies,
                       !.events = loop.events, !.lines = lines,
                       !.writes = <<[path |-> path, content |-> content, ok |-> ~writeThrows]>>,
                       !.notices = <<IF writeThrows THEN N_EXPORT_FAIL ELSE N_EXPORT_OK>>]
        /\ staticFs' = loop.fs
        /\ postsFs' = IF writeThrows THEN postsFs ELSE PutFile(postsFs, path, content)

\* lines 201-329: the "write-file" command
WriteFileCommand ==
    /\ IF ~file.open
       THEN /\ last' = Run("write-file")
            /\ UNCHANGED <<staticFs, postsFs>>
       ELSE IF IsDailyNote(FilenameOf(file.path))
       THEN /\ last' = [Run("write-file") EXCEPT !.logs = <<N_DAILY>>]
            /\ UNCHANGED <<staticFs, postsFs>>
       ELSE \E filename \in {FilenameOf(file.path)}, frontmatter \in {getFrontmatter(doc)} :
            \E dated \in {InjectDate(doc, frontmatter, CurrentDate)} :
            \E lines \in {Split(InjectTitle(dated, frontmatter, filename), "\n")} :
            \E writeThrows \in BOOLEAN :
                WriteFile(filename, frontmatter, lines, writeThrows)
    /\ UNCHANGED <<file, doc, settings, vault, snapshotFs, norm, asyncVars>>

\* line 687: startPageExportPath.replace(/\\/g, "")
StripBackslashes(s) == SelectSeq(s, LAMBDA ch : ch # "\\")

\* lines 411-683: the html document made of the note text (the rendering by
\* markdown-it is not expanded: the document is named by the text it renders)
RenderStartPage(content) == [htmlOf |-> content]

\* a variant that takes the text as it was at the last editor-change event the
\* plugin handled
EditorValueAtLastChange ==
    LET handled == {k \in DOMAIN host.log :
                       host.log[k].kind = "edit" /\ host.log[k].flag}
    IN  IF handled = {} THEN doc ELSE host.log[Max(handled)].text

\* line 411: editor.getDoc().getValue(), the text at the time of the call
EditorValue == doc

\* a variant without the check of the configured path
exportStartPageHtmlWithoutPathGate(writeThrows) ==
    LET cleanPath == StripBackslashes(settings.startPageExportPath)
        html == RenderStartPage(doc)
        start == Run("export-start-page")
    IN  IF ~file.open
        THEN /\ last' = start
             /\ UNCHANGED snapshotFs
        ELSE IF Basename(file.path) # START
        THEN /\ last' = [start EXCEPT !.notices = <<N_ONLY_START>>]
             /\ UNCHANGED snapshotFs
        ELSE /\ last' = [start EXCEPT
                            !.writes = <<[path |-> cleanPath, content |-> html, ok |-> ~writeThrows]>>,
                            !.notices = <<IF writeThrows THEN N_START_FAIL ELSE N_START_OK>>]
             /\ snapshotFs' = IF writeThrows THEN snapshotFs
                              ELSE PutFile(snapshotFs, cleanPath, html)

\* lines 392-701
exportStartPageHtml(writeThrows) ==
    LET cleanPath == StripBackslashes(settings.startPageExportPath)
        html == RenderStartPage(EditorValue)
        start == Run("export-start-page")
    IN  IF ~file.open
        THEN /\ last' = start
             /\ UNCHANGED snapshotFs
        ELSE IF Basename(file.path) # START
        THEN /\ last' = [start EXCEPT !.notices = <<N_ONLY_START>>]
             /\ UNCHANGED snapshotFs
        ELSE IF settings.startPageExportPath = <<>>
        THEN /\ last' = [start EXCEPT !.notices = <<N_NO_PATH>>]
             /\ UNCHANGED snapshotFs
        ELSE /\ last' = [start EXCEPT
                            !.writes = <<[path |-> cleanPath, content |-> html, ok |-> ~writeThrows]>>,
                            !.notices = <<IF writeThrows THEN N_START_FAIL ELSE N_START_OK>>]
             /\ snapshotFs' = IF writeThrows THEN snapshotFs
                              ELSE PutFile(snapshotFs, cleanPath, html)

\* lines 190-196: the "export-start-page" command
ExportStartPageCommand ==
    /\ \E writeThrows \in BOOLEAN : exportStartPageHtml(writeThrows)
    /\ UNCHANGED <<file, doc, settings, vault, staticFs, postsFs, norm, asyncVars>>

Next ==
    \/ PublishPost
    \/ WriteFileCommand
    \/ ExportStartPageCommand

Spec == Init /\ [][Next]_vars

----------------------------------------------------------------------------
(* The metadata normalizer on its own: the text edits of "write-file" (date and *)
(* title injection, alias fixups), applied to a text buffer                      *)

\* lines 222-244 and 309-315 in the order of the command
MetadataNormalizer(content, filename, currentDate) ==
    With(getFrontmatter(content),
         LAMBDA frontmatter :
             With(InjectDate(content, frontmatter, currentDate),
                  LAMBDA dated :
                      With(InjectTitle(dated, frontmatter, filename),
                           LAMBDA titled : FixAliases(titled, frontmatter))))

\* lines 222-232 alone
DateNormalization(content, currentDate) ==
    With(getFrontmatter(content),
         LAMBDA frontmatter : InjectDate(content, frontmatter, currentDate))

InitNorm ==
    /\ \E text \in FrontmatterDocs, path \in FilePaths :
          norm = [filename |-> FilenameOf(path), input |-> text, text |-> text,
                  op |-> "none", runs |-> 0]
    /\ file = NoFile
    /\ doc = <<>>
    /\ settings = [startPageExportPath |-> P_unset]
    /\ vault = VaultFiles
    /\ staticFs = <<>>
    /\ postsFs = <<>>
    /\ snapshotFs = <<>>
    /\ last = Run("none")
    /\ AsyncIdle

\* the date injection applied to a fresh text
NormalizeDate ==
    /\ norm.op = "none"
    /\ norm' = [norm EXCEPT !.input = norm.text,
                            !.text = DateNormalization(norm.text, CurrentDate),
                            !.op = "date"]
    /\ UNCHANGED <<file, doc, settings, vault, staticFs, postsFs, snapshotFs, last,
                   asyncVars>>

\* the whole normalizer applied to the buffer, the first time or again
NormalizeAll ==
    /\ norm.op \in {"none", "all"}
    /\ norm.runs < MaxNormRuns
    /\ norm' = [norm EXCEPT !.input = norm.text,
                            !.text = MetadataNormalizer(norm.text, norm.filename, CurrentDate),
                            !.op = "all",
                            !.runs = @ + 1]
    /\ UNCHANGED <<file, doc, settings, vault, staticFs, postsFs, snapshotFs, last,
                   asyncVars>>

NextNorm ==
    \/ NormalizeDate
    \/ NormalizeAll

SpecNorm == InitNorm /\ [][NextNorm]_vars

----------------------------------------------------------------------------
(* The start page auto-export: the editor-change handler, the debounce timer *)
(* and onunload, under a clock that counts ticks of one second               *)

\* line 49: the delay of the debounce, 3000 ms, in ticks
DebounceDelay == 3

\* texts of the start page
S_one == <<"x">>
S_two == <<"x", "y">>
S_three == <<"y">>

StartTexts == {S_one, S_two, S_three}

\* an entry of the host's log: an editor-change event (flag: the plugin's
\* handler ran and scheduled), a run of exportStartPageHtml from a timer
\* (text: what it rendered, flag: the file was written), or the unload
LogEntry(kind, at, text, flag) == [kind |-> kind, at |-> at, text |-> text, flag |-> flag]

\* the editor-change events logged so far
EditCount == Cardinality({k \in DOMAIN host.log : host.log[k].kind = "edit"})

\* a variant of the cancellation that leaves the pending timer alone
CancelNothing(timers, handle) == timers

\* lines 43-45: if (this.debounceTimer) clearTimeout(this.debounceTimer)
CancelPending(timers, handle) ==
    IF handle.set THEN {t \in timers : t.id # handle.id} ELSE timers

\* lines 42-50: the host after debouncedExportStartPage; the new timer gets
\* the handle h.nextId
debouncedExportStartPage(h, handle) ==
    [h EXCEPT !.timers = CancelPending(@, handle)
                             \cup {[id |-> h.nextId, due |-> h.now + DebounceDelay]},
              !.nextId = @ + 1]

\* lines 176-187: the text changes and the host raises "editor-change"; the
\* handler is registered (registerEvent) as long as the plugin is loaded
EditorChange ==
    /\ EditCount < MaxEdits
    /\ host.now + DebounceDelay <= MaxTime
    /\ \E text \in StartTexts \ {doc} :
          /\ doc' = text
          /\ IF host.loaded /\ file.open /\ Basename(file.path) = START
             THEN /\ debounceTimer' = [set |-> TRUE, id |-> host.nextId]
                  /\ host' = [debouncedExportStartPage(host, debounceTimer) EXCEPT
                                 !.log = Append(@, LogEntry("edit", host.now, text, TRUE))]
             ELSE /\ host' = [host EXCEPT
                                 !.log = Append(@, LogEntry("edit", host.now, text, FALSE))]
                  /\ UNCHANGED debounceTimer
    /\ UNCHANGED <<file, settings, vault, staticFs, postsFs, snapshotFs, last, norm, pipes>>

\* what a run of exportStartPageHtml left in the log
RunEntry(at, run) ==
    IF run.writes = <<>>
    THEN LogEntry("run", at, <<>>, FALSE)
    ELSE LogEntry("run", at, run.writes[1].content.htmlOf, run.writes[1].ok)

\* lines 47-49: a timer that is due fires and calls exportStartPageHtml
TimerFires ==
    /\ \E t \in host.timers :
          /\ t.due <= host.now
          /\ \E writeThrows \in BOOLEAN : exportStartPageHtml(writeThrows)
          /\ host' = [host EXCEPT !.timers = @ \ {t},
                                  !.log = Append(@, RunEntry(host.now, last'))]
    /\ UNCHANGED <<file, doc, settings, vault, staticFs, postsFs, norm, debounceTimer, pipes>>

\* one second passes; a timer that is due fires before the clock moves on
Tick ==
    /\ host.now < MaxTime
    /\ \A t \in host.timers : t.due > host.now
    /\ host' = [host EXCEPT !.now = @ + 1]
    /\ UNCHANGED <<file, doc, settings, vault, staticFs, postsFs, snapshotFs, last, norm,
                   debounceTimer, pipes>>

\* lines 953-964: onunload; the host drops the handlers given to registerEvent,
\* the method leaves this.debounceTimer and its timer as they are
Unload ==
    /\ host.loaded
    /\ host' = [host EXCEPT !.loaded = FALSE,
                            !.log = Append(@, LogEntry("unload", host.now, <<>>, TRUE))]
    /\ UNCHANGED <<file, doc, settings, vault, staticFs, postsFs, snapshotFs, last, norm,
                   debounceTimer, pipes>>

InitDebounce ==
    /\ file \in {OpenFile(F_start), OpenFile(F_note)}
    /\ doc = S_one
    /\ settings \in {[startPageExportPath |-> p] : p \in {P_plain, P_unset}}
    /\ vault = VaultFiles
    /\ staticFs = <<>>
    /\ postsFs = <<>>
    /\ snapshotFs = <<>>
    /\ last = Run("none")
    /\ norm = NormIdle
    /\ AsyncIdle

NextDebounce ==
    \/ EditorChange
    \/ TimerFires
    \/ Tick
    \/ Unload

SpecDebounce == InitDebounce /\ [][NextDebounce]_vars

\* the host's event loop runs a timer that is due, and time passes
SpecDebounceLive ==
    /\ InitDebounce
    /\ [][NextDebounce]_vars
    /\ WF_vars(TimerFires)
    /\ WF_vars(Tick)

----------------------------------------------------------------------------
(* Two invocations of "write-file" on the same note, running without mutual  *)
(* exclusion: each runs from one await to the next (the stat of             *)
(* fileExistsWithSameSize, fs.copyFile, fs.writeFile) in one step. A call   *)
(* of fs.writeFile opens the file (creating or truncating it) and then      *)
(* writes the text from the start of the file; two calls in flight on one   *)
(* path are not ordered against each other.                                 *)

Pipelines == {1, 2}

IdlePipe == [state |-> "idle"]

\* the notes the two invocations export
C_caption == NoteText(<<L_title>>, <<L_embedSub, L_cap>>)
C_bare == NoteText(<<L_title>>, <<L_embedSub>>)
C_two == NoteText(<<L_title>>, <<L_two, L_embedSub>>)

ConcDocs == {C_caption, C_bare, C_two}

\* lines 251-303 from line i up to the next await: the lines without an embed
\* the vault resolves are pushed at once; wait names the call the pipeline is
\* suspended in next, the stat of line i or the write of the file
RECURSIVE RunToAwait(_, _, _)
RunToAwait(lines, i, acc) ==
    IF i > Len(lines) THEN [i |-> i, acc |-> acc, wait |-> "open"]
    ELSE With(EmbedMatch(lines[i]),
              LAMBDA imageMatch :
                  IF imageMatch.found /\ IsVaultFile(imageMatch.name)
                  THEN [i |-> i, acc |-> acc, wait |-> "stat"]
                  ELSE With(LoopStep(lines, i, acc),
                            LAMBDA after : RunToAwait(lines, i + 1, after)))

\* the pipeline after the loop went on from line i to the next await
Suspended(pipe, i, acc) ==
    With(RunToAwait(pipe.lines, i, [acc EXCEPT !.fs = <<>>]),
         LAMBDA r :
             [pipe EXCEPT
                 !.state = r.wait,
                 !.i = r.i,
                 !.acc = r.acc,
                 !.content = IF r.wait = "open"
                             THEN FixAliases(Join(r.acc.out, "\n"), pipe.frontmatter)
                             ELSE <<>>])

\* lines 201-264: an invocation of the command runs up to its first await
StartExport(p) ==
    /\ pipes[p].state = "idle"
    /\ p = 1 \/ pipes[1].state # "idle"
    /\ IF ~file.open \/ IsDailyNote(FilenameOf(file.path))
       THEN pipes' = [pipes EXCEPT ![p] = [state |-> "skipped"]]
       ELSE \E filename \in {FilenameOf(file.path)}, frontmatter \in {getFrontmatter(doc)} :
            \E dated \in {InjectDate(doc, frontmatter, CurrentDate)} :
            \E lines \in {Split(InjectTitle(dated, frontmatter, filename), "\n")} :
                pipes' = [pipes EXCEPT
                             ![p] = Suspended([state |-> "idle", text |-> doc,
                                               path |-> ExportPath(filename),
                                               frontmatter |-> frontmatter, lines |-> lines,
                                               i |-> 1, acc |-> LoopStart(<<>>),
                                               content |-> <<>>, ok |-> FALSE, order |-> 0],
                                              1, LoopStart(<<>>))]
    /\ UNCHANGED <<file, doc, settings, vault, staticFs, postsFs, snapshotFs, last, norm,
                   debounceTimer, host>>

\* the embed the pipeline is suspended at
PendingImage(pipe) == EmbedMatch(pipe.lines[pipe.i]).name

\* lines 264-267: fileExistsWithSameSize returns; a destination in place lets
\* the loop go on, otherwise fs.copyFile is called
StatReturns(p) ==
    /\ pipes[p].state = "stat"
    /\ \E pipe \in {pipes[p]} :
       \E imageName \in {PendingImage(pipe)} :
          IF fileExistsWithSameSize(staticFs, SourcePath(imageName), DestPath(imageName))
          THEN \E after \in {ResolvedStep(pipe.lines, pipe.i,
                                          [pipe.acc EXCEPT !.fs = staticFs], imageName, TRUE)} :
                   pipes' = [pipes EXCEPT
                                ![p] = Suspended(pipe, after.events[Len(after.events)].next,
                                                 after)]
          ELSE pipes' = [pipes EXCEPT ![p].state = "copy"]
    /\ UNCHANGED <<file, doc, settings, vault, staticFs, postsFs, snapshotFs, last, norm,
                   debounceTimer, host>>

\* lines 269-294: fs.copyFile returns or throws, and the loop goes on
CopyReturns(p) ==
    /\ pipes[p].state = "copy"
    /\ \E pipe \in {pipes[p]} :
       \E after \in {ResolvedStep(pipe.lines, pipe.i, [pipe.acc EXCEPT !.fs = staticFs],
                                  PendingImage(pipe), FALSE)} :
          /\ staticFs' = after.fs
          /\ pipes' = [pipes EXCEPT
                          ![p] = Suspended(pipe, after.events[Len(after.events)].next, after)]
    /\ UNCHANGED <<file, doc, settings, vault, postsFs, snapshotFs, last, norm,
                   debounceTimer, host>>

\* line 321, first half: fs.writeFile opens the file, which creates or
\* truncates it, or throws (lines 323-328)
WriteOpens(p) ==
    /\ pipes[p].state = "open"
    /\ \E writeThrows \in BOOLEAN :
          IF writeThrows
          THEN /\ pipes' = [pipes EXCEPT ![p].state = "done"]
               /\ UNCHANGED postsFs
          ELSE /\ pipes' = [pipes EXCEPT ![p].state = "data"]
               /\ postsFs' = PutFile(postsFs, pipes[p].path, <<>>)
    /\ UNCHANGED <<file, doc, settings, vault, staticFs, snapshotFs, last, norm,
                   debounceTimer, host>>

\* what a file holds after text was written from its start
WrittenOver(old, text) == text \o SubSeq(old, Len(text) + 1, Len(old))

\* how many pipelines have written their text
WritesDone == Cardinality({q \in Pipelines : pipes[q].state = "done" /\ pipes[q].ok})

\* line 321, second half: fs.writeFile writes the text from the start of the
\* file and returns (line 322)
WriteData(p) ==
    /\ pipes[p].state = "data"
    /\ postsFs' = PutFile(postsFs, pipes[p].path,
                          WrittenOver(Stat(postsFs, pipes[p].path), pipes[p].content))
    /\ pipes' = [pipes EXCEPT ![p].state = "done", ![p].ok = TRUE,
                              ![p].order = WritesDone + 1]
    /\ UNCHANGED <<file, doc, settings, vault, staticFs, snapshotFs, last, norm,
                   debounceTimer, host>>

\* the user edits the note between the two invocations
EditNote ==
    /\ pipes[1].state \notin {"idle", "skipped"}
    /\ pipes[2].state = "idle"
    /\ doc = pipes[1].text
    /\ \E text \in ConcDocs \ {doc} : doc' = text
    /\ UNCHANGED <<file, settings, vault, staticFs, postsFs, snapshotFs, last, norm,
                   debounceTimer, host, pipes>>

InitConc ==
    /\ vault = VaultFiles
    /\ file \in {OpenFile(F_note), OpenFile(F_daily)}
    /\ doc \in ConcDocs
    /\ settings = [startPageExportPath |-> P_unset]
    /\ staticFs \in InitialStaticFs(doc)
    /\ postsFs = <<>>
    /\ snapshotFs = <<>>
    /\ last = Run("none")
    /\ norm = NormIdle
    /\ debounceTimer = NoTimer
    /\ host = HostIdle
    /\ pipes = [p \in Pipelines |-> IdlePipe]

NextConc ==
    \/ \E p \in Pipelines : StartExport(p)
    \/ \E p \in Pipelines : StatReturns(p)
    \/ \E p \in Pipelines : CopyReturns(p)
    \/ \E p \in Pipelines : WriteOpens(p)
    \/ \E p \in Pipelines : WriteData(p)
    \/ EditNote

SpecConc == InitConc /\ [][NextConc]_vars

----------------------------------------------------------------------------
(* What the last command did, as the properties below read it *)

\* the iterations of the last export that met an embed the vault resolves
ResolvedEvents ==
    {k \in DOMAIN last.events : last.events[k].kind \in {"figure", "copyerror"}}

\* the iterations of the last export that wrote figure markup
FigureEvents == {k \in DOMAIN last.events : last.events[k].kind = "figure"}

\* the last export went past the gates into the line loop
ExportRan == last.cmd = "write-file" /\ last.events # <<>>

\* line j of the text the last export looped over is there and is not blank
NonBlankAt(j) == j <= Len(last.lines) /\ Trim(last.lines[j]) # <<>>

\* line j is there and is blank after trimming
BlankAt(j) == j <= Len(last.lines) /\ Trim(last.lines[j]) = <<>>

\* line j is there and holds an embed token
EmbedAt(j) == j <= Len(last.lines) /\ EmbedMatch(last.lines[j]).found

\* line j went to the output as it was, as a line of its own
PreservedAt(j) ==
    \E k \in DOMAIN last.events :
        last.events[k].line = j /\ last.events[k].pushed = last.lines[j]

\* line j is there and was not visited by the loop: it went into a caption
RemovedAt(j) ==
    /\ j <= Len(last.lines)
    /\ \A k \in DOMAIN last.events : last.events[k].line # j

\* the figure markup of the reference name under a caption
FigureMarkup(name, caption) ==
    <<FIGURE_OPEN>> \o name \o <<FIGURE_MID>> \o caption \o <<FIGURE_CLOSE, "\n">>

----------------------------------------------------------------------------
(* C1: the publish gate *)

\* the parsed frontmatter of the note has a tags field that is a list with the
\* element #publish
TagsListHasPublish ==
    With(getFrontmatter(doc),
         LAMBDA fm :
             /\ ~fm.isNull
             /\ K_tags \in fm.keys
             /\ fm.at[K_tags].isArray
             /\ \E i \in 1..Len(fm.at[K_tags].items) : fm.at[K_tags].items[i] = PUBLISH_TAG)

\* C1: an invocation of the publish command issues a POST only if the parsed
\* frontmatter is non-null and its tags field is a list that contains #publish
\* (a scalar string tags issues none), and issues exactly one POST when that
\* holds and the file is not a daily note
C1_PostOnlyForPublishInTagList ==
    last.cmd = "publish-post" =>
        /\ last.posts # <<>> => TagsListHasPublish
        /\ (file.open /\ ~IsDailyNote(FilenameOf(file.path)) /\ TagsListHasPublish)
               => Len(last.posts) = 1

----------------------------------------------------------------------------
(* C2: the daily-note gate *)

\* the last command left nothing behind: no stat, no copy, no write, no POST,
\* no notice
NoSideEffect ==
    /\ last.stats = <<>>
    /\ last.copies = <<>>
    /\ last.writes = <<>>
    /\ last.posts = <<>>
    /\ last.notices = <<>>

\* the last command stopped at the daily-note gate
SkippedAsDaily == \E k \in DOMAIN last.logs : last.logs[k] = N_DAILY

\* C2: for the export and the publish command, a file whose name without its
\* extension matches dddd-dd-dd makes the invocation a no-op without side
\* effect, and a file whose name without its extension does not match is not
\* skipped by the daily-note gate
C2_SkippedIffNameWithoutExtensionIsDate ==
    (last.cmd \in {"write-file", "publish-post"} /\ file.open) =>
        IF MatchesDatePattern(Basename(file.path))
        THEN SkippedAsDaily /\ NoSideEffect
        ELSE ~SkippedAsDaily

----------------------------------------------------------------------------
(* C3: image dedup *)

\* C3: for every resolved embed the export processes, fs.copyFile is called if
\* and only if the stat of the destination found no file, or could not look, or
\* found a size other than the source's; and after an export in which no copy
\* threw, every such embed has a destination file of the size of its source
C3_CopyIffDestinationDiffers ==
    last.cmd = "write-file" =>
        /\ \A k \in ResolvedEvents :
               (last.events[k].copy # "none")
                   <=> \/ last.events[k].destStat.state # "file"
                       \/ last.events[k].destStat.size # vault[last.events[k].name]
        /\ Len(last.copies) = Cardinality({k \in ResolvedEvents : last.events[k].copy # "none"})
        /\ (\A k \in DOMAIN last.copies : last.copies[k].ok)
               => \A k \in ResolvedEvents :
                      /\ Stat(staticFs, last.events[k].dest).state = "file"
                      /\ Stat(staticFs, last.events[k].dest).size = vault[last.events[k].name]

\* an export overwrote a destination of another size and later found the same
\* asset in place and did not copy it again
C3_Witness ==
    /\ last.cmd = "write-file"
    /\ \E j, k \in ResolvedEvents :
           /\ j < k
           /\ last.events[j].copy = "ok"
           /\ last.events[j].destStat.state = "file"
           /\ last.events[k].name = last.events[j].name
           /\ last.events[k].copy = "none"

----------------------------------------------------------------------------
(* C4: when the line after an embed becomes the caption *)

\* the figure written at iteration k has this caption
FigureHasCaption(k, caption) ==
    /\ last.events[k].caption = caption
    /\ last.events[k].pushed = FigureMarkup(last.events[k].name, caption)

\* line j is there, is not blank and holds no embed token
BodyTextAt(j) == NonBlankAt(j) /\ ~EmbedAt(j)

\* C4 as stated: the line after a resolved embed is consumed as the caption only
\* when a blank line follows it; without a following blank line (the line being
\* the last of the text included) the figure has caption "" and the line stays
\* in the output; with a following blank line the caption is the trimmed line,
\* which is removed from the output
C4_CaptionOnlyBeforeBlankLine ==
    last.cmd = "write-file" =>
        \A k \in FigureEvents :
            LET i == last.events[k].line
            IN  /\ (BodyTextAt(i + 1) /\ ~BlankAt(i + 2))
                       => FigureHasCaption(k, <<>>) /\ PreservedAt(i + 1)
                /\ (BodyTextAt(i + 1) /\ BlankAt(i + 2))
                       => FigureHasCaption(k, Trim(last.lines[i + 1])) /\ RemovedAt(i + 1)

\* C4 amended: the line after a resolved embed is consumed as the caption only
\* when a blank line or the end of the text follows it; followed by a non-blank
\* line it stays in the output and the figure has caption ""; followed by a
\* blank line or by nothing, its trimmed text is the caption and the line is
\* removed from the output
C4_CaptionBeforeBlankLineOrEnd ==
    last.cmd = "write-file" =>
        \A k \in FigureEvents :
            LET i == last.events[k].line
            IN  /\ (BodyTextAt(i + 1) /\ NonBlankAt(i + 2))
                       => FigureHasCaption(k, <<>>) /\ PreservedAt(i + 1)
                /\ (BodyTextAt(i + 1) /\ ~NonBlankAt(i + 2))
                       => FigureHasCaption(k, Trim(last.lines[i + 1])) /\ RemovedAt(i + 1)

\* an export met a resolved embed followed by one line of text, the last of the
\* note, and made that line the caption
C4_Witness ==
    /\ last.cmd = "write-file"
    /\ \E k \in FigureEvents :
           /\ last.events[k].line + 1 = Len(last.lines)
           /\ BodyTextAt(last.events[k].line + 1)
           /\ last.events[k].caption = Trim(last.lines[Len(last.lines)])
           /\ RemovedAt(Len(last.lines))

----------------------------------------------------------------------------
(* C5: the caption rule *)

\* the rule of the claim for the embed at line i: line i + 1 exists, is not
\* blank, holds no embed token, and line i + 2 is blank or past the end
CaptionRule(i) ==
    /\ NonBlankAt(i + 1)
    /\ ~EmbedAt(i + 1)
    /\ (i + 2 > Len(last.lines) \/ BlankAt(i + 2))

\* C5: for a resolved embed at line i, line i + 1 is claimed as the caption if
\* and only if it exists, is not blank, holds no embed token, and line i + 2 is
\* blank or past the end of the text; of two consecutive embed lines the first
\* takes no caption and the second is processed as an embed; after an embed two
\* non-blank body lines are both preserved; an embed on the last line gives a
\* figure with an empty caption
C5_CaptionClaimedIffRule ==
    last.cmd = "write-file" =>
        \A k \in FigureEvents :
            LET i == last.events[k].line
            IN  /\ last.events[k].next = (IF CaptionRule(i) THEN i + 2 ELSE i + 1)
                /\ (RemovedAt(i + 1) <=> CaptionRule(i))
                /\ FigureHasCaption(k, IF CaptionRule(i) THEN Trim(last.lines[i + 1]) ELSE <<>>)
                /\ EmbedAt(i + 1)
                       => /\ last.events[k].caption = <<>>
                          /\ \E m \in DOMAIN last.events :
                                 /\ last.events[m].line = i + 1
                                 /\ last.events[m].kind # "text"
                /\ (BodyTextAt(i + 1) /\ BodyTextAt(i + 2))
                       => /\ last.events[k].caption = <<>>
                          /\ PreservedAt(i + 1)
                          /\ PreservedAt(i + 2)
                /\ i = Len(last.lines) => last.events[k].caption = <<>>

\* an export turned two consecutive embed lines into two figures, the first
\* without a caption
C5_Witness ==
    /\ last.cmd = "write-file"
    /\ \E j, k \in FigureEvents :
           /\ last.events[k].line = last.events[j].line + 1
           /\ last.events[j].caption = <<>>

----------------------------------------------------------------------------
(* C6: the normalizer applied to its own output *)

\* C6: the metadata normalizer is idempotent: applied to its own output it
\* returns that output unchanged
C6_NormalizerIdempotent ==
    (norm.op = "all" /\ norm.runs >= 2) => norm.text = norm.input

----------------------------------------------------------------------------
(* C7: the date injection and the parser *)

\* a line of a frontmatter block that is a list item: no colon, a dash first
IsDashItem(line) == ~Includes(line, <<":">>) /\ StartsWith(Trim(line), <<"-">>)

\* the key of a line of a frontmatter block that has a colon
KeyOf(line) == Trim(SubSeq(line, 1, IndexOf(line, <<":">>, 1) - 1))

\* the text begins with a well-formed block that has no date key: the first
\* line is "---", a later line is "---", and between them every list item
\* comes after a key line and no key is date
WellFormedWithoutDate(text) ==
    With(Split(text, "\n"),
         LAMBDA lines :
             /\ lines[1] = L_rule
             /\ \E c \in 2..Len(lines) :
                    /\ lines[c] = L_rule
                    /\ \A j \in 2..(c - 1) :
                           /\ lines[j] # L_rule
                           /\ IsDashItem(lines[j])
                                  => \E h \in 2..(j - 1) : Includes(lines[h], <<":">>)
                           /\ Includes(lines[j], <<":">>) => KeyOf(lines[j]) # K_date)

----------------------------------------------------------------------------
(* C8: where an image is copied to *)

----------------------------------------------------------------------------
(* C9: embeds that cannot be exported *)

\* the iterations of the last export at an embed that was not found in the
\* vault or whose copy threw
FailedEvents ==
    {k \in DOMAIN last.events : last.events[k].kind \in {"notfound", "copyerror"}}

\* C9: an embed whose reference is not in the vault or whose copy throws leaves
\* its line in the output as it was and consumes no caption line; the run goes
\* on: the loop visits every line up to the end of the text (but the captions
\* it claims), an embed is reported not found only when the vault has no such
\* file, every embed the vault resolves whose copy does not throw is replaced
\* by figure markup, and the write of the destination file is attempted
C9_FailedEmbedLeavesLineAndRunGoesOn ==
    ExportRan =>
        /\ \A k \in FailedEvents :
               /\ last.events[k].pushed = last.lines[last.events[k].line]
               /\ last.events[k].caption = <<>>
               /\ last.events[k].next = last.events[k].line + 1
        /\ last.events[1].line = 1
        /\ \A k \in DOMAIN last.events :
               IF k < Len(last.events)
               THEN last.events[k + 1].line = last.events[k].next
               ELSE last.events[k].next > Len(last.lines)
                        /\ last.events[k].line <= Len(last.lines)
        /\ \A k \in DOMAIN last.events :
               With(EmbedMatch(last.lines[last.events[k].line]),
                    LAMBDA m :
                        /\ last.events[k].kind = "text" <=> ~m.found
                        /\ last.events[k].kind = "notfound"
                               <=> (m.found /\ m.name \notin DOMAIN vault)
                        /\ last.events[k].kind = "copyerror"
                               <=> (m.found /\ m.name \in DOMAIN vault
                                       /\ last.events[k].copy = "threw")
                        /\ last.events[k].kind = "figure"
                               => /\ last.events[k].name = m.name
                                  /\ last.events[k].pushed # last.lines[last.events[k].line])
        /\ Len(last.writes) = 1

\* an export met an embed not in the vault and an embed whose copy threw, and
\* afterwards copied a later embed and wrote its figure
C9_Witness ==
    /\ ExportRan
    /\ \E h, j, k \in DOMAIN last.events :
           /\ h < k
           /\ j < k
           /\ last.events[h].kind = "notfound"
           /\ last.events[j].kind = "copyerror"
           /\ last.events[k].kind = "figure"
           /\ last.events[k].copy = "ok"
    /\ Len(last.writes) = 1

----------------------------------------------------------------------------
(* C10: the gates of the start page snapshot *)

\* the two gates: the basename of the active file is START and a path is set
SnapshotGatesPass ==
    /\ file.open
    /\ Basename(file.path) = START
    /\ settings.startPageExportPath # <<>>

\* C10: the write of the html snapshot is attempted if and only if the basename
\* of the active file is START and the configured export path is not empty,
\* whatever the frontmatter of the note; when a gate fails no write is
\* attempted and no snapshot file comes to exist
C10_SnapshotWrittenIffGatesPass ==
    /\ last.cmd = "export-start-page" =>
           /\ Len(last.writes) = 1 <=> SnapshotGatesPass
           /\ last.writes = <<>> <=> ~SnapshotGatesPass
           /\ (SnapshotGatesPass /\ last.writes[1].ok)
                  => StripBackslashes(settings.startPageExportPath) \in DOMAIN snapshotFs
    /\ ~SnapshotGatesPass => snapshotFs = <<>>

\* the snapshot of a START note was written though its frontmatter does not
\* pass the publish gate
C10_Witness ==
    /\ last.cmd = "export-start-page"
    /\ Len(last.writes) = 1
    /\ last.writes[1].ok
    /\ snapshotFs # <<>>
    /\ ~PassesPublishGate(getFrontmatter(doc))

----------------------------------------------------------------------------
(* C11: the title made of the filename *)

\* the filename without a trailing ".md", each hyphen and each underscore
\* turned into one space
TitleOfName(filename) ==
    LET n == Len(filename)
        stem == IF n >= 3 /\ SubSeq(filename, n - 2, n) = <<".", "m", "d">>
                THEN SubSeq(filename, 1, n - 3)
                ELSE filename
    IN  [i \in 1..Len(stem) |-> IF stem[i] = "-" \/ stem[i] = "_" THEN " " ELSE stem[i]]

\* how many of the lines begin with "title: "
TitleLines(lines) == Cardinality({i \in DOMAIN lines : StartsWith(lines[i], TITLE_PREFIX)})

----------------------------------------------------------------------------
(* C12: the debounce is single-slot *)

\* the editor-change events the handler took, and the runs the timers started
HandledEdits == {k \in DOMAIN host.log : host.log[k].kind = "edit" /\ host.log[k].flag}
TimerRuns == {k \in DOMAIN host.log : host.log[k].kind = "run"}

\* the last handled edit before log entry p, or 0
LastHandledEditBefore(p) ==
    LET earlier == {k \in HandledEdits : k < p}
    IN  IF earlier = {} THEN 0 ELSE Max(earlier)

\* C12: at every moment at most one timer is pending; every handled edit of the
\* start page cancels the pending timer and starts a new one, due one delay
\* later; so between two edits less than the delay apart no run starts, a run
\* starts only when the delay has passed since the last edit before it, and
\* each burst gets one run: after a run no other run starts before a new edit
C12_DebounceSingleSlot ==
    /\ Cardinality(host.timers) <= 1
    /\ \A p \in TimerRuns :
           LET q == LastHandledEditBefore(p)
           IN  /\ q # 0
               /\ host.log[p].at >= host.log[q].at + DebounceDelay
               /\ \A r \in TimerRuns : ~(q < r /\ r < p)
    /\ \A q, r \in HandledEdits :
           (q < r /\ host.log[r].at < host.log[q].at + DebounceDelay)
               => \A p \in TimerRuns : ~(q < p /\ p < r)
    /\ LET q == LastHandledEditBefore(Len(host.log) + 1)
       IN  IF q # 0 /\ \A p \in TimerRuns : p < q
           THEN /\ \E t \in host.timers :
                       /\ t.due = host.log[q].at + DebounceDelay
                       /\ debounceTimer = [set |-> TRUE, id |-> t.id]
                /\ host.now <= host.log[q].at + DebounceDelay
           ELSE host.timers = {}

\* three edits of the start page, each less than the delay after the one
\* before, were followed by one run
C12_Witness ==
    \E a, b, c \in HandledEdits, p \in TimerRuns :
        /\ a < b /\ b < c /\ c < p
        /\ host.log[a].at < host.log[b].at
        /\ host.log[b].at < host.log[c].at
        /\ TimerRuns = {p}

----------------------------------------------------------------------------
(* C13: the timer and onunload *)

\* C13: when the host unloads the plugin the pending debounce timer is cleared:
\* once onunload has run no timer is pending and no run of the snapshot
\* pipeline starts
C13_NoRunAfterUnload ==
    /\ ~host.loaded => host.timers = {}
    /\ \A u, p \in DOMAIN host.log :
           (host.log[u].kind = "unload" /\ host.log[p].kind = "run") => p < u

----------------------------------------------------------------------------
(* C16: the text a debounced run renders *)

\* the text after the last editor-change event logged before entry p
TextBefore(p) ==
    LET edits == {k \in DOMAIN host.log : k < p /\ host.log[k].kind = "edit"}
    IN  IF edits = {} THEN S_one ELSE host.log[Max(edits)].text

\* every run that got to render rendered the text as it was when its timer
\* fired, and the snapshot file holds what the last successful run rendered
RunsReadTextAtFire ==
    /\ \A p \in TimerRuns :
           host.log[p].text # <<>> => host.log[p].text = TextBefore(p)
    /\ LET written == {p \in TimerRuns : host.log[p].flag}
       IN  written # {}
               => /\ StripBackslashes(settings.startPageExportPath) \in DOMAIN snapshotFs
                  /\ snapshotFs[StripBackslashes(settings.startPageExportPath)]
                         = [htmlOf |-> TextBefore(Max(written))]

\* a handled edit of the start page is not yet followed by a run
BurstPending ==
    LET q == LastHandledEditBefore(Len(host.log) + 1)
    IN  q # 0 /\ \A p \in TimerRuns : p < q

\* the last handled edit is followed by a run, and if that run wrote the file
\* the file holds the rendering of the text as it was when the run started
BurstServed ==
    LET q == LastHandledEditBefore(Len(host.log) + 1)
    IN  /\ q # 0
        /\ \E p \in TimerRuns :
               /\ p > q
               /\ host.log[p].flag
                      => host.log[p].text = TextBefore(p)

\* C16: a debounced snapshot run reads the note text when its timer fires, not
\* when the edit event was received: every run renders the text as it is when
\* the run starts, so never an intermediate text of the burst, and after a
\* burst of edits of the start page the run comes eventually and, when its
\* write succeeds, leaves the rendering of the text after the last edit
C16_RunRendersTextAtFire ==
    /\ []RunsReadTextAtFire
    /\ (BurstPending ~> BurstServed)

\* two edits of the start page less than the delay apart left different texts,
\* and the one run that followed wrote the rendering of the second
C16_Witness ==
    \E a, b \in HandledEdits, p \in TimerRuns :
        /\ a < b /\ b < p
        /\ host.log[b].at < host.log[a].at + DebounceDelay
        /\ host.log[a].text # host.log[b].text
        /\ host.log[p].flag
        /\ host.log[p].text = host.log[b].text
        /\ TimerRuns = {p}
        /\ snapshotFs[StripBackslashes(settings.startPageExportPath)]
               = [htmlOf |-> host.log[b].text]

----------------------------------------------------------------------------
(* C15: a failed write of the exported note *)

\* C15: in export a failure of the write of the destination file is caught and
\* shown as the failure notice, the success notice is shown only when the
\* write succeeded, a run that gets to the write shows exactly one of the two;
\* the copies the run made stay in place whether the write failed or not, and
\* nothing is tried twice: one stat per resolved embed, at most one copy per
\* resolved embed, one write
C15_WriteFailureNoticeNoRollback ==
    ExportRan =>
        /\ Len(last.writes) = 1
        /\ Len(last.notices) = 1
        /\ last.notices[1] = (IF last.writes[1].ok THEN N_EXPORT_OK ELSE N_EXPORT_FAIL)
        /\ last.writes[1].ok
               => /\ last.writes[1].path \in DOMAIN postsFs
                  /\ postsFs[last.writes[1].path] = last.writes[1].content
        /\ \A k \in ResolvedEvents :
               last.events[k].copy = "ok"
                   => /\ Stat(staticFs, last.events[k].dest).state = "file"
                      /\ Stat(staticFs, last.events[k].dest).size = vault[last.events[k].name]
        /\ Len(last.stats) = Cardinality(ResolvedEvents)
        /\ Len(last.copies) <= Cardinality(ResolvedEvents)

\* an export copied an image to a place that held none, then failed to write
\* the note and said so
C15_Witness ==
    /\ ExportRan
    /\ ~last.writes[1].ok
    /\ last.notices = <<N_EXPORT_FAIL>>
    /\ \E k \in ResolvedEvents :
           /\ last.events[k].copy = "ok"
           /\ last.events[k].destStat.state = "missing"

----------------------------------------------------------------------------
(* C17: the image pass is line-local and keeps the order *)

\* the name in the first embed token of a line, or <<>> when it has none
FirstTokenName(line) ==
    LET opens == {p \in 1..(Len(line) - 2) : SubSeq(line, p, p + 2) = <<"!", "[", "[">>}
    IN  IF opens = {} THEN <<>>
        ELSE LET p == Min(opens)
                 closes == {q \in (p + 3)..(Len(line) - 1) :
                               SubSeq(line, q, q + 1) = <<"]", "]">>}
             IN  IF closes = {} THEN <<>> ELSE SubSeq(line, p + 3, Min(closes) - 1)

\* line j has an embed token
HasToken(line) ==
    \E p \in 1..(Len(line) - 2) :
        /\ SubSeq(line, p, p + 2) = <<"!", "[", "[">>
        /\ \E q \in (p + 3)..(Len(line) - 1) : SubSeq(line, q, q + 1) = <<"]", "]">>

\* C17: the line index strictly increases and every input line is visited at
\* most once; every input line is visited or is the caption the figure before
\* it claimed; a visited line without an embed token goes to the output as it
\* is, the output holding what the visits pushed in the order of the lines; a
\* line whose first embed token resolves and is copied (or found in place) is
\* replaced as a whole by one figure line made of that first token
C17_LineLocalOrderPreserving ==
    ExportRan =>
        /\ \A k \in DOMAIN last.events :
               /\ last.events[k].line \in DOMAIN last.lines
               /\ last.events[k].next > last.events[k].line
               /\ k < Len(last.events) => last.events[k + 1].line = last.events[k].next
        /\ \A j \in DOMAIN last.lines :
               \/ Cardinality({k \in DOMAIN last.events : last.events[k].line = j}) = 1
               \/ /\ RemovedAt(j)
                  /\ \E k \in FigureEvents :
                         /\ last.events[k].line = j - 1
                         /\ last.events[k].caption = Trim(last.lines[j])
                         /\ last.events[k].caption # <<>>
        /\ \A k \in DOMAIN last.events :
               LET line == last.lines[last.events[k].line]
               IN  /\ ~HasToken(line) => last.events[k].pushed = line
                   /\ last.events[k].kind = "figure"
                          => last.events[k].pushed
                                 = FigureMarkup(FirstTokenName(line), last.events[k].caption)
                   /\ (HasToken(line) /\ FirstTokenName(line) \in DOMAIN vault
                           /\ last.events[k].copy # "threw")
                          => last.events[k].kind = "figure"
        /\ (~Includes(doc, ALIASES_COLON) /\ ~Includes(doc, HUGO_ALIASES_COLON))
               => last.writes[1].content
                      = Join([k \in DOMAIN last.events |-> last.events[k].pushed], "\n")

\* an export turned a line with text and two embed tokens into the figure of
\* the first token, took the next line as its caption and kept a later line
C17_Witness ==
    /\ ExportRan
    /\ \E k, m \in DOMAIN last.events :
           /\ k < m
           /\ last.events[k].kind = "figure"
           /\ last.lines[last.events[k].line] = L_two
           /\ last.events[k].caption # <<>>
           /\ last.events[m].kind = "text"
           /\ last.events[m].line > last.events[k].line + 1

----------------------------------------------------------------------------
(* C14: two exports of one note at once *)

\* both pipelines ran to their end, no copy threw and both writes returned
BothDoneWithoutFailure ==
    \A p \in Pipelines :
        /\ pipes[p].state = "done"
        /\ pipes[p].ok
        /\ \A c \in DOMAIN pipes[p].acc.copies : pipes[p].acc.copies[c].ok

\* C14: two export pipelines of one note, interleaved at their awaits, end in
\* a consistent state: once both are done without a failed copy or write,
\* every destination asset has the size of its source, and the destination
\* file holds the whole output of the pipeline whose write came last
C14_InterleavedExportsConsistent ==
    BothDoneWithoutFailure =>
        /\ \A p \in Pipelines :
               \A k \in DOMAIN pipes[p].acc.events :
                   pipes[p].acc.events[k].kind = "figure"
                       => /\ Stat(staticFs, pipes[p].acc.events[k].dest).state = "file"
                          /\ Stat(staticFs, pipes[p].acc.events[k].dest).size
                                 = vault[pipes[p].acc.events[k].name]
        /\ \E p \in Pipelines :
               /\ pipes[p].order = 2
               /\ postsFs[pipes[p].path] = pipes[p].content

====
